---- MODULE Spec2Model ----
(***************************************************************************)
(* State-machine model of the audio metadata pipeline of jadipas/freddie:  *)
(* scan_directory, extract_mp3_metadata, extract_mp4_metadata,             *)
(* calculate_bpm, save_metadata and main of backend/metadata_extractor.py, *)
(* the two-walk scan_directory of metadata_extractor.py, and the           *)
(* get_audio_metadata handler of backend/main.py.                          *)
(*                                                                         *)
(* Strings the code inspects character by character (file names, path      *)
(* components) are sequences of one-character strings.  A path is the      *)
(* sequence of its components; the empty path <<>> is the string "".       *)
(***************************************************************************)
EXTENDS Integers, Sequences, FiniteSets, TLC

VARIABLES
    impl,            \* which scan_directory runs: "backend" or "legacy"
    root,            \* the directory argument as given by the caller
    flag,            \* calculate_missing_bpm
    output,          \* the output_file argument
    tree,            \* the files below directory m, as the file system lists them
    pc,              \* position of the process
    directory,       \* scan_directory's local directory (normalised)
    audio_files,     \* backend: the collected (file_path, is_mp3) list
    total_files,     \* len(audio_files) / the legacy count
    processed_files, \* legacy progress counter
    idx,             \* loop position (1-based)
    started,         \* file paths whose extraction has begun, in order
    bpm_calls,       \* file paths calculate_bpm was invoked on, in order
    results,         \* scan_directory's results list
    disk,            \* content of the output targets
    writes,          \* write attempts of save_metadata, in order
    stdout,          \* diagnostics printed (the ones the claims speak of)
    exit_status,     \* process exit status, -1 while running
    bpm_returned,    \* what a direct call of calculate_bpm returned
    runs,            \* the scan_directory calls completed before this one
    response         \* what get_audio_metadata answered

vars == <<impl, root, flag, output, tree, pc, directory, audio_files,
          total_files, processed_files, idx, started, bpm_calls, results,
          disk, writes, stdout, exit_status, bpm_returned, runs,
          response>>

\* ------------------------------------------------------------------ bounds

\* Most files below the scanned directory.
MaxFiles == 2

\* ------------------------------------------------------ strings and paths

\* str.lower() on the characters that occur in file names.
LowerChar(c) ==
    CASE c = "M" -> "m"
      [] c = "P" -> "p"
      [] c = "A" -> "a"
      [] OTHER -> c

Lower(s) == [i \in 1..Len(s) |-> LowerChar(s[i])]

\* str.endswith(suffix)
EndsWith(s, suf) ==
    /\ Len(s) >= Len(suf)
    /\ SubSeq(s, Len(s) - Len(suf) + 1, Len(s)) = suf

\* str.endswith(tuple of suffixes)
EndsWithAny(s, sufs) == \E suf \in sufs : EndsWith(s, suf)

DotMp3 == <<".", "m", "p", "3">>
DotMp4 == <<".", "m", "p", "4">>
DotM4a == <<".", "m", "4", "a">>

\* Path components.
Dot    == <<".">>
DotDot == <<".", ".">>
DirM   == <<"m">>           \* a directory of the working directory
DirS   == <<"s">>           \* a sub-directory of m
DirX   == <<"x">>           \* a name that does not exist
FileF  == <<"f">>           \* a regular file of the working directory

RECURSIVE NormComps(_, _)
\* posixpath.normpath's loop over the components: drops "." and collapses
\* "name/.." (acc is new_comps).
NormComps(p, acc) ==
    IF p = <<>> THEN acc
    ELSE LET comp == Head(p) IN
         IF comp = Dot THEN NormComps(Tail(p), acc)
         ELSE IF comp # DotDot \/ acc = <<>> \/ acc[Len(acc)] = DotDot
              THEN NormComps(Tail(p), Append(acc, comp))
              ELSE NormComps(Tail(p), SubSeq(acc, 1, Len(acc) - 1))

\* os.path.normpath(directory) on a relative path: an empty result is ".".
Normpath(p) ==
    LET comps == NormComps(p, <<>>) IN
    IF comps = <<>> THEN <<Dot>> ELSE comps

\* The directories of the file system: the working directory "cwd", its
\* parent "up", its sub-directory m and m's sub-directory s.  One step of
\* the operating system's path resolution; "none" is a missing name or a
\* regular file.
StepDir(node, comp) ==
    CASE node = "none" -> "none"
      [] comp = Dot -> node
      [] comp = DotDot ->
            (CASE node = "s" -> "m" [] node = "m" -> "cwd" [] OTHER -> "up")
      [] node = "cwd" /\ comp = DirM -> "m"
      [] node = "m" /\ comp = DirS -> "s"
      [] OTHER -> "none"

RECURSIVE Resolve(_, _)
Resolve(node, p) ==
    IF p = <<>> THEN node ELSE Resolve(StepDir(node, Head(p)), Tail(p))

\* os.path.isdir(path): the empty string names nothing.
IsDir(p) == p # <<>> /\ Resolve("cwd", p) # "none"

\* os.path.join(root, file)
Join(dir, file) == Append(dir, file)

\* os.path.basename(path)
Basename(p) == IF p = <<>> THEN <<>> ELSE <<p[Len(p)]>>

\* ------------------------------------------------- decimal string of an int

Digit(d) ==
    CASE d = 0 -> "0" [] d = 1 -> "1" [] d = 2 -> "2" [] d = 3 -> "3"
      [] d = 4 -> "4" [] d = 5 -> "5" [] d = 6 -> "6" [] d = 7 -> "7"
      [] d = 8 -> "8" [] OTHER -> "9"

RECURSIVE DecStr(_)
\* str(n) of an int
DecStr(n) ==
    IF n < 0 THEN "-" \o DecStr(0 - n)
    ELSE IF n < 10 THEN Digit(n)
    ELSE DecStr(n \div 10) \o Digit(n % 10)

\* round(x) of Python 3 (half to even), x given in tenths.
Round(tenths) ==
    LET q == tenths \div 10
        r == tenths % 10
    IN  IF r < 5 THEN q
        ELSE IF r > 5 THEN q + 1
        ELSE IF q % 2 = 0 THEN q ELSE q + 1

\* ------------------------------------------------------- files on the disk

\* Values a tag can hold.  mutagen gives MP4 tags as lists (tmpo a list of
\* ints, trkn a list of pairs, text tags a list of strings) and ID3 tags as
\* frame objects; an atom is one int, pair or text.
Text(s)    == [t |-> "text", s |-> s, n |-> 0, m |-> 0]
IntV(n)    == [t |-> "int", s |-> "", n |-> n, m |-> 0]
PairV(n, m) == [t |-> "pair", s |-> "", n |-> n, m |-> m]
ListOf(items) == [isList |-> TRUE, items |-> items]
Frame(s)   == [isList |-> FALSE, items |-> <<Text(s)>>]

NoTags == [k \in {} |-> Frame("")]

Info(length, bitrate, sample_rate, channels) ==
    [length |-> length, bitrate |-> bitrate,
     sample_rate |-> sample_rate, channels |-> channels]

NoInfo == Info(0, 0, 0, 0)

\* What librosa makes of the audio: whether librosa.load decodes it, and
\* what librosa.beat.tempo estimates: a finite tempo, in tenths of a beat
\* per minute, or (estimate "inf", "nan") a value round() cannot convert.
Audio(decodes, tempo10) ==
    [decodes |-> decodes, estimate |-> "finite", tempo10 |-> tempo10]

\* Decodable audio whose tempo estimate is not a finite number.
NonFinite(estimate) ==
    [decodes |-> TRUE, estimate |-> estimate, tempo10 |-> 0]

\* A file: its name, whether it lies in the sub-directory s of m, and its
\* bytes: fmt is the container the bytes really are ("mp3", "mp4", "junk"),
\* id3 the state of the ID3v2 tag ("ok", "none", "trunc": cut short).
File(name, sub, fmt, id3, info, tags, audio) ==
    [name |-> name, sub |-> sub, fmt |-> fmt, id3 |-> id3, info |-> info,
     tags |-> tags, audio |-> audio]

\* a.mp3: tagged MP3 with a tempo tag and both year tags
FileA == File(<<"a", ".", "m", "p", "3">>, FALSE, "mp3", "ok",
              Info(180, 320000, 44100, 2),
              ("TIT2" :> Frame("Song")) @@ ("TBPM" :> Frame("128"))
                @@ ("TDRC" :> Frame("2020")) @@ ("TYER" :> Frame("1999")),
              Audio(TRUE, 1200))
\* b.MP3: tagged MP3 without tempo tag, legacy year tag only
FileB == File(<<"b", ".", "M", "P", "3">>, FALSE, "mp3", "ok",
              Info(0, 128000, 48000, 1),
              ("TIT2" :> Frame("Tune")) @@ ("TYER" :> Frame("1999"))
                @@ ("TKEY" :> Frame("Am")),
              Audio(TRUE, 1284))
\* c.mp3: valid MPEG audio that carries no ID3 tag at all
FileC == File(<<"c", ".", "m", "p", "3">>, TRUE, "mp3", "none",
              Info(200, 192000, 44100, 2), NoTags, Audio(TRUE, 1200))
\* d.mp3: not MPEG audio
FileD == File(<<"d", ".", "m", "p", "3">>, FALSE, "junk", "none",
              NoInfo, NoTags, Audio(FALSE, 0))
\* e.Mp3: cut short inside its ID3v2 tag
FileE == File(<<"e", ".", "M", "p", "3">>, TRUE, "mp3", "trunc",
              NoInfo, NoTags, Audio(FALSE, 0))
\* f.m4a: tagged MP4 with a tempo tag, a track pair and both genre tags
FileF4 == File(<<"f", ".", "m", "4", "a">>, FALSE, "mp4", "none",
              Info(240, 256000, 44100, 2),
              ("@nam" :> ListOf(<<Text("Track")>>))
                @@ ("tmpo" :> ListOf(<<IntV(120)>>))
                @@ ("trkn" :> ListOf(<<PairV(1, 10)>>))
                @@ ("@gen" :> ListOf(<<Text("Techno"), Text("Dub")>>))
                @@ ("gnre" :> ListOf(<<Text("House")>>)),
              Audio(TRUE, 1200))
\* g.MP4: MP4 without tempo tag whose audio librosa cannot decode
FileG == File(<<"g", ".", "M", "P", "4">>, TRUE, "mp4", "none",
              Info(60, 96000, 22050, 1),
              ("gnre" :> ListOf(<<Text("House")>>))
                @@ ("cprt" :> [isList |-> FALSE, items |-> <<Text("(c)")>>]),
              Audio(FALSE, 0))
\* h.mp4: untagged MP4, tempo 90.5
FileH == File(<<"h", ".", "m", "p", "4">>, FALSE, "mp4", "none",
              Info(30, 64000, 48000, 2), NoTags, Audio(TRUE, 905))
\* i.m4a: not an MP4 container
FileI == File(<<"i", ".", "m", "4", "a">>, FALSE, "junk", "none",
              NoInfo, NoTags, Audio(FALSE, 0))
\* j.M4A: valid MP4 whose title atom holds no value
FileJ == File(<<"j", ".", "M", "4", "A">>, TRUE, "mp4", "none",
              Info(10, 64000, 44100, 2),
              ("@nam" :> ListOf(<<>>)), Audio(TRUE, 1200))
\* k.txt, l.mp3.bak: names the scanner must pass over
FileK == File(<<"k", ".", "t", "x", "t">>, FALSE, "junk", "none",
              NoInfo, NoTags, Audio(FALSE, 0))
FileL == File(<<"l", ".", "m", "p", "3", ".", "b", "a", "k">>, TRUE, "mp3",
              "ok", Info(180, 320000, 44100, 2),
              ("TBPM" :> Frame("100")), Audio(TRUE, 1000))

\* The files a tree is drawn from.
Files == {FileA, FileB, FileC, FileD, FileE, FileF4, FileG, FileH, FileI,
          FileJ, FileK, FileL}

\* ------------------------------------------------ what the libraries return

\* A call that returns val, or raises an exception whose str() is msg.
Returned(val) == [raised |-> FALSE, msg |-> "", val |-> val]
Raised(msg)   == [raised |-> TRUE, msg |-> msg, val |-> NoInfo]

\* MP3(file_path): the stream info of MPEG audio.  A file cut short inside
\* its ID3 tag makes mutagen raise an exception built without a message.
OpenMP3(f) ==
    IF f.fmt # "mp3" THEN Raised("can't sync to MPEG frame")
    ELSE IF f.id3 = "trunc" THEN Raised("")
    ELSE Returned(f.info)

\* ID3(file_path): the ID3 tag; a file without one raises ID3NoHeaderError.
OpenID3(f) ==
    IF f.id3 = "ok" THEN [raised |-> FALSE, msg |-> "", val |-> f.tags]
    ELSE IF f.id3 = "trunc" THEN [raised |-> TRUE, msg |-> "", val |-> NoTags]
    ELSE [raised |-> TRUE, msg |-> "doesn't start with an ID3 tag",
          val |-> NoTags]

\* MP4(file_path): stream info and tags of an MP4 container.
OpenMP4(f) ==
    IF f.fmt = "mp4" THEN Returned(f.info) ELSE Raised("not a MP4 file")

\* str(x) of one tag atom.
StrAtom(a) ==
    CASE a.t = "int"  -> DecStr(a.n)
      [] a.t = "pair" -> "(" \o DecStr(a.n) \o ", " \o DecStr(a.m) \o ")"
      [] OTHER        -> a.s

\* ------------------------------------------------------------ calculate_bpm

\* The value calculate_bpm returns: None, or an int.
None == [none |-> TRUE, val |-> 0]
Some(n) == [none |-> FALSE, val |-> n]

\* Faulty variant: the test is "if bpm is not None".
TruthyNotNone(b) == ~b.none

\* Python truthiness of an optional int (if bpm:).
Truthy(b) == ~b.none /\ b.val # 0

\* Faulty variant: a failure is answered with 0.
calculate_bpm_zero_on_failure(f) ==
    IF f.audio.decodes /\ f.audio.estimate = "finite"
    THEN Some(Round(f.audio.tempo10))
    ELSE Some(0)

\* librosa.load raises on audio it cannot decode, round() raises on inf
\* (OverflowError) and nan (ValueError); except Exception returns None.
calculate_bpm(f) ==
    IF f.audio.decodes /\ f.audio.estimate = "finite"
    THEN Some(Round(f.audio.tempo10))
    ELSE None

\* ------------------------------------------------------------- tag probing

Mp3TagMapping ==
    << <<"title", <<"TIT2">> >>,
       <<"artist", <<"TPE1">> >>,
       <<"album", <<"TALB">> >>,
       <<"year", <<"TDRC", "TYER">> >>,
       <<"genre", <<"TCON">> >>,
       <<"track_number", <<"TRCK">> >>,
       <<"bpm", <<"TBPM">> >>,
       <<"key", <<"TKEY">> >>,
       <<"composer", <<"TCOM">> >>,
       <<"publisher", <<"TPUB">> >>,
       <<"initial_key", <<"TKEY">> >> >>

\* "@" stands for the copyright sign of the MP4 atom names.
Mp4TagMapping ==
    << <<"title", <<"@nam">> >>,
       <<"artist", <<"@ART">> >>,
       <<"album", <<"@alb">> >>,
       <<"year", <<"@day">> >>,
       <<"genre", <<"@gen", "gnre">> >>,
       <<"track_number", <<"trkn">> >>,
       <<"bpm", <<"tmpo">> >>,
       <<"composer", <<"@wrt">> >>,
       <<"comment", <<"@cmt">> >>,
       <<"copyright", <<"cprt">> >>,
       <<"album_artist", <<"aART">> >> >>

RECURSIVE FirstPresent(_, _)
\* The inner loop: the first tag_id of tag_ids that is in tags, or "" when
\* the loop ends without a break.
FirstPresent(tag_ids, tags) ==
    IF tag_ids = <<>> THEN ""
    ELSE IF Head(tag_ids) \in DOMAIN tags THEN Head(tag_ids)
    ELSE FirstPresent(Tail(tag_ids), tags)

\* The state of a try block: the metadata dict so far, or the exception.
Running(md) == [raised |-> FALSE, msg |-> "", md |-> md]
Thrown(msg) == [raised |-> TRUE, msg |-> msg, md |-> <<>>]

RECURSIVE Mp3Probe(_, _, _)
\* The tag loop of extract_mp3_metadata over the rest of the mapping.
Mp3Probe(mapping, tags, md) ==
    IF mapping = <<>> THEN Running(md)
    ELSE LET key == Head(mapping)[1]
             tag_id == FirstPresent(Head(mapping)[2], tags)
         IN  IF tag_id = "" THEN Mp3Probe(Tail(mapping), tags, md)
             ELSE Mp3Probe(Tail(mapping), tags,
                           (key :> StrAtom(tags[tag_id].items[1])) @@ md)

\* The value the MP4 loop stores for a present tag: str(value[0]) of a list
\* (IndexError on an empty one), str(value) otherwise.
Mp4Value(value) ==
    IF value.isList
    THEN IF value.items = <<>> THEN Raised("list index out of range")
         ELSE Returned(StrAtom(value.items[1]))
    ELSE Returned(StrAtom(value.items[1]))

RECURSIVE Mp4Probe(_, _, _)
\* The tag loop of extract_mp4_metadata over the rest of the mapping.
Mp4Probe(mapping, tags, md) ==
    IF mapping = <<>> THEN Running(md)
    ELSE LET key == Head(mapping)[1]
             tag_id == FirstPresent(Head(mapping)[2], tags)
         IN  IF tag_id = "" THEN Mp4Probe(Tail(mapping), tags, md)
             ELSE LET v == Mp4Value(tags[tag_id]) IN
                  IF v.raised THEN Thrown(v.msg)
                  ELSE Mp4Probe(Tail(mapping), tags, (key :> v.val) @@ md)

\* -------------------------------------------------------------- extractors

\* Faulty variant: the test of "bpm" not in metadata is dropped.
WantsBpmIgnoringTag(md, calculate_missing_bpm) == calculate_missing_bpm

\* Faulty variant: the BPM is calculated whether or not calculation is
\* requested.
WantsBpmIgnoringFlag(md, calculate_missing_bpm) == "bpm" \notin DOMAIN md

\* Whether the extractor reaches its call of calculate_bpm with metadata md.
WantsBpm(md, calculate_missing_bpm) ==
    "bpm" \notin DOMAIN md /\ calculate_missing_bpm

\* Faulty variant: a calculation that gives no BPM turns the record into an
\* error record.
WithBpmErrorOnFailure(f, md, calculate_missing_bpm) ==
    IF WantsBpm(md, calculate_missing_bpm)
    THEN LET bpm == calculate_bpm(f) IN
         IF Truthy(bpm)
         THEN ("bpm" :> DecStr(bpm.val)) @@ ("bpm_calculated" :> TRUE) @@ md
         ELSE [file_path |-> md.file_path, error |-> "no BPM"]
    ELSE md

\* The end of both try blocks: calculate the BPM if it is not in the
\* metadata and calculation is requested; the dict that is returned.
WithBpm(f, md, calculate_missing_bpm) ==
    IF WantsBpm(md, calculate_missing_bpm)
    THEN LET bpm == calculate_bpm(f) IN
         IF Truthy(bpm)
         THEN ("bpm" :> DecStr(bpm.val)) @@ ("bpm_calculated" :> TRUE) @@ md
         ELSE md
    ELSE md

\* The try block of extract_mp3_metadata up to the end of the tag loop.
Mp3Parse(file_path, f) ==
    LET audio == OpenMP3(f)
        tags == OpenID3(f)
    IN  IF audio.raised THEN Thrown(audio.msg)
        ELSE IF tags.raised THEN Thrown(tags.msg)
        ELSE Mp3Probe(Mp3TagMapping, tags.val,
                      [file_path |-> file_path,
                       file_type |-> "mp3",
                       duration |-> audio.val.length,
                       bitrate |-> audio.val.bitrate,
                       sample_rate |-> audio.val.sample_rate,
                       channels |-> audio.val.channels])

\* The try block of extract_mp4_metadata up to the end of the tag loop.
Mp4Parse(file_path, f) ==
    LET audio == OpenMP4(f) IN
    IF audio.raised THEN Thrown(audio.msg)
    ELSE Mp4Probe(Mp4TagMapping, f.tags,
                  [file_path |-> file_path,
                   file_type |-> "mp4",
                   duration |-> audio.val.length,
                   bitrate |-> audio.val.bitrate,
                   sample_rate |-> audio.val.sample_rate,
                   channels |-> audio.val.channels])

\* Faulty variant: the handler keeps a field of the dict built so far.
ErrorRecordKeepsType(file_path, msg) ==
    [file_path |-> file_path, file_type |-> "mp3", error |-> msg]

\* except Exception as e: return {"file_path": file_path, "error": str(e)}
ErrorRecord(file_path, msg) == [file_path |-> file_path, error |-> msg]

extract_mp3_metadata(file_path, f, calculate_missing_bpm) ==
    LET parsed == Mp3Parse(file_path, f) IN
    IF parsed.raised THEN ErrorRecord(file_path, parsed.msg)
    ELSE WithBpm(f, parsed.md, calculate_missing_bpm)

extract_mp4_metadata(file_path, f, calculate_missing_bpm) ==
    LET parsed == Mp4Parse(file_path, f) IN
    IF parsed.raised THEN ErrorRecord(file_path, parsed.msg)
    ELSE WithBpm(f, parsed.md, calculate_missing_bpm)

\* Whether the extractor invokes calculate_bpm on the file.
CallsBpm(is_mp3, file_path, f, calculate_missing_bpm) ==
    LET parsed == IF is_mp3 THEN Mp3Parse(file_path, f)
                  ELSE Mp4Parse(file_path, f)
    IN  ~parsed.raised /\ WantsBpm(parsed.md, calculate_missing_bpm)

\* ------------------------------------------------------------ the directory

\* The regular file f of the working directory.
CwdFile == File(FileF, FALSE, "junk", "none", NoInfo, NoTags, Audio(FALSE, 0))

\* The entries of t that lie in s (sub) or directly in m, in listing order.
InDir(t, sub) == SelectSeq(t, LAMBDA f : f.sub = sub)

\* One (root, file) pair of os.walk.
Entries(dirpath, files) ==
    [i \in 1..Len(files) |-> [root |-> dirpath, file |-> files[i]]]

\* for root, _, files in os.walk(directory): for file in files, flattened:
\* top-down, a directory's own files before those of its sub-directories.
Walk(dirpath, t) ==
    LET node == Resolve("cwd", dirpath)
        below_m(p) == Entries(p, InDir(t, FALSE))
                      \o Entries(Join(p, DirS), InDir(t, TRUE))
    IN  CASE node = "cwd" -> Entries(dirpath, <<CwdFile>>)
                             \o below_m(Join(dirpath, DirM))
          [] node = "m"   -> below_m(dirpath)
          [] node = "s"   -> Entries(dirpath, InDir(t, TRUE))
          [] OTHER        -> <<>>

\* Faulty variant: the name is not lowered before the test.
IsAudioNameCaseSensitive(file) == EndsWithAny(file, {DotMp3, DotMp4, DotM4a})

\* file.lower().endswith((".mp3", ".mp4", ".m4a"))
IsAudioName(file) == EndsWithAny(Lower(file), {DotMp3, DotMp4, DotM4a})

\* file.lower().endswith(".mp3")
IsMp3Name(file) == EndsWith(Lower(file), DotMp3)

\* Faulty variant: the second walk's elif knows ".mp4" only.
IsMp4NameWithoutM4a(file) == EndsWith(Lower(file), DotMp4)

\* file.lower().endswith((".mp4", ".m4a"))
IsMp4Name(file) == EndsWithAny(Lower(file), {DotMp4, DotM4a})

FilePath(entry) == Join(entry.root, entry.file.name)

\* The extractor scan_directory picks for a file.
Extract(is_mp3, file_path, f, calculate_missing_bpm) ==
    IF is_mp3 THEN extract_mp3_metadata(file_path, f, calculate_missing_bpm)
    ELSE extract_mp4_metadata(file_path, f, calculate_missing_bpm)

\* ---------------------------------------------------------- the output file

OutDir  == <<"o">>
OutName == <<"r">>

\* The output_file arguments: a bare file name, and a file in directory o.
Outputs == { <<OutName>>, <<OutDir, OutName>> }

Targets == { <<OutName>>, <<OutDir, OutName>> }

Absent == [kind |-> "absent", timestamp |-> 0, system |-> "",
           file_count |-> 0, metadata |-> <<>>]

\* What open(..., "w") leaves when json.dump fails part-way.
Partial == [kind |-> "partial", timestamp |-> 0, system |-> "",
            file_count |-> 0, metadata |-> <<>>]

\* Faulty variant: file_count counts the records that carry no error.
ReportCountingGood(metadata, now) ==
    [kind |-> "report", timestamp |-> now, system |-> "Linux",
     file_count |-> Len(SelectSeq(metadata,
                                  LAMBDA r : "error" \notin DOMAIN r)),
     metadata |-> metadata]

\* The document save_metadata dumps.
Report(metadata, now) ==
    [kind |-> "report", timestamp |-> now, system |-> "Linux",
     file_count |-> Len(metadata), metadata |-> metadata]

\* The outcomes of one write attempt (with open(...) as f: json.dump(...)).
WriteOutcomes == {"ok", "open_fails", "dump_fails"}

\* The target after a write attempt.
Written(old, metadata, now, outcome) ==
    CASE outcome = "ok"         -> Report(metadata, now)
      [] outcome = "dump_fails" -> Partial
      [] OTHER                  -> old

\* ------------------------------------------------------------ HTTP answers

\* No answer yet.
NoResponse == [status_code |-> 0, detail |-> "", body |-> Absent]

\* return data: FastAPI answers 200 with the document.
Ok200(data) == [status_code |-> 200, detail |-> "", body |-> data]

\* raise HTTPException(status_code=500, detail=...)
HTTPException(status_code, detail) ==
    [status_code |-> status_code, detail |-> detail, body |-> Absent]

\* ------------------------------------------------------------------- states

Roots == { <<>>, <<DirM>>, <<DirM, Dot>>, <<DirX>>, <<DirX, DotDot>>,
           <<FileF>> }

Trees ==
    { t \in UNION { [1..n -> Files] : n \in 0..MaxFiles } :
        \A i, j \in DOMAIN t : i # j => t[i].name # t[j].name }

Init ==
    /\ impl \in {"backend", "legacy"}
    /\ root \in Roots
    /\ flag \in BOOLEAN
    /\ output \in Outputs
    /\ tree \in Trees
    /\ pc = "scan"
    /\ directory = <<>>
    /\ audio_files = <<>>
    /\ total_files = 0
    /\ processed_files = 0
    /\ idx = 1
    /\ started = <<>>
    /\ bpm_calls = <<>>
    /\ results = <<>>
    /\ disk = [t \in Targets |-> Absent]
    /\ writes = <<>>
    /\ stdout = <<>>
    /\ exit_status = -1
    /\ bpm_returned = None
    /\ runs = <<>>
    /\ response = NoResponse

\* ------------------------------------------------------------ scan_directory

\* The check of the directory argument, in both scanners.
ScanStart ==
    /\ pc = "scan"
    /\ directory' = Normpath(root)
    /\ IF ~IsDir(Normpath(root))
       THEN /\ stdout' = Append(stdout, "is not a valid directory")
            /\ exit_status' = 1
            /\ pc' = "exit"
       ELSE /\ stdout' = Append(stdout, "Scanning directory")
            /\ exit_status' = exit_status
            /\ pc' = "walk"
    /\ UNCHANGED <<bpm_returned, runs, response>>
    /\ UNCHANGED <<impl, root, flag, output, tree, audio_files, total_files,
                   processed_files, idx, started, bpm_calls, results, disk,
                   writes>>

\* Faulty variant: each file found is put at the front of audio_files.
CollectedNewestFirst(walk) ==
    LET audio == SelectSeq(walk, LAMBDA e : IsAudioName(e.file.name))
        n == Len(audio)
    IN  [i \in 1..n |->
            [file_path |-> FilePath(audio[n + 1 - i]),
             is_mp3 |-> IsMp3Name(audio[n + 1 - i].file.name),
             file |-> audio[n + 1 - i].file]]

\* The audio_files the backend scanner collects from a walk.
Collected(walk) ==
    LET audio == SelectSeq(walk, LAMBDA e : IsAudioName(e.file.name)) IN
    [i \in 1..Len(audio) |->
        [file_path |-> FilePath(audio[i]),
         is_mp3 |-> IsMp3Name(audio[i].file.name),
         file |-> audio[i].file]]

\* Faulty variant: an empty collection is fatal, like an invalid directory.
CollectFilesFatalWhenEmpty ==
    /\ pc = "walk"
    /\ impl = "backend"
    /\ audio_files' = Collected(Walk(directory, tree))
    /\ total_files' = Len(audio_files')
    /\ IF total_files' = 0
       THEN /\ stdout' = Append(stdout, "No MP3 or MP4 files found")
            /\ exit_status' = 1
            /\ pc' = "exit"
       ELSE /\ stdout' = stdout
            /\ exit_status' = exit_status
            /\ pc' = "process"
    /\ UNCHANGED <<bpm_returned, runs, response>>
    /\ UNCHANGED <<impl, root, flag, output, tree, directory,
                   processed_files, idx, started, bpm_calls, results, disk,
                   writes>>

\* backend: collect all audio files; return at once when there are none.
CollectFiles ==
    /\ pc = "walk"
    /\ impl = "backend"
    /\ audio_files' = Collected(Walk(directory, tree))
    /\ total_files' = Len(audio_files')
    /\ IF total_files' = 0
       THEN /\ stdout' = Append(stdout, "No MP3 or MP4 files found")
            /\ pc' = "save"
       ELSE /\ stdout' = stdout
            /\ pc' = "process"
    /\ UNCHANGED <<bpm_returned, runs, response>>
    /\ UNCHANGED <<impl, root, flag, output, tree, directory,
                   processed_files, idx, started, bpm_calls, results, disk,
                   writes, exit_status>>

\* backend: the loop body up to the call of the extractor.
ExtractBegin ==
    /\ pc = "process"
    /\ impl = "backend"
    /\ started' = Append(started, audio_files[idx].file_path)
    /\ pc' = "extracting"
    /\ UNCHANGED <<bpm_returned, runs, response>>
    /\ UNCHANGED <<impl, root, flag, output, tree, directory, audio_files,
                   total_files, processed_files, idx, bpm_calls, results,
                   disk, writes, stdout, exit_status>>

\* Faulty variant: the loop ends at the first record that carries an error.
ExtractEndStopsOnError ==
    /\ pc = "extracting"
    /\ impl = "backend"
    /\ LET a == audio_files[idx]
           metadata == Extract(a.is_mp3, a.file_path, a.file, flag)
       IN
       /\ results' = Append(results, metadata)
       /\ bpm_calls' = IF CallsBpm(a.is_mp3, a.file_path, a.file, flag)
                       THEN Append(bpm_calls, a.file_path)
                       ELSE bpm_calls
       /\ pc' = IF idx = Len(audio_files) \/ "error" \in DOMAIN metadata
                THEN "save" ELSE "process"
    /\ idx' = idx + 1
    /\ UNCHANGED <<bpm_returned, runs, response>>
    /\ UNCHANGED <<impl, root, flag, output, tree, directory, audio_files,
                   total_files, processed_files, started, disk, writes,
                   stdout, exit_status>>

\* backend: the extractor returns; results.append(metadata); next file.
ExtractEnd ==
    /\ pc = "extracting"
    /\ impl = "backend"
    /\ LET a == audio_files[idx] IN
       /\ results' = Append(results,
                            Extract(a.is_mp3, a.file_path, a.file, flag))
       /\ bpm_calls' = IF CallsBpm(a.is_mp3, a.file_path, a.file, flag)
                       THEN Append(bpm_calls, a.file_path)
                       ELSE bpm_calls
    /\ idx' = idx + 1
    /\ pc' = IF idx = Len(audio_files) THEN "save" ELSE "process"
    /\ UNCHANGED <<bpm_returned, runs, response>>
    /\ UNCHANGED <<impl, root, flag, output, tree, directory, audio_files,
                   total_files, processed_files, started, disk, writes,
                   stdout, exit_status>>

\* legacy: the first walk counts the audio files.
LegacyCount ==
    /\ pc = "walk"
    /\ impl = "legacy"
    /\ total_files' = Len(SelectSeq(Walk(directory, tree),
                                    LAMBDA e : IsAudioName(e.file.name)))
    /\ IF total_files' = 0
       THEN /\ stdout' = Append(stdout, "No MP3 or MP4 files found")
            /\ pc' = "save"
       ELSE /\ stdout' = stdout
            /\ pc' = "process"
    /\ UNCHANGED <<bpm_returned, runs, response>>
    /\ UNCHANGED <<impl, root, flag, output, tree, directory, audio_files,
                   processed_files, idx, started, bpm_calls, results, disk,
                   writes, exit_status>>

\* legacy: the second walk meets a file that is neither branch's.
LegacySkip ==
    /\ pc = "process"
    /\ impl = "legacy"
    /\ LET walk == Walk(directory, tree) IN
       /\ ~IsMp3Name(walk[idx].file.name)
       /\ ~IsMp4Name(walk[idx].file.name)
       /\ pc' = IF idx = Len(walk) THEN "save" ELSE "process"
    /\ idx' = idx + 1
    /\ UNCHANGED <<bpm_returned, runs, response>>
    /\ UNCHANGED <<impl, root, flag, output, tree, directory, audio_files,
                   total_files, processed_files, started, bpm_calls, results,
                   disk, writes, stdout, exit_status>>

\* legacy: the second walk meets an audio file and calls its extractor.
LegacyBegin ==
    /\ pc = "process"
    /\ impl = "legacy"
    /\ LET walk == Walk(directory, tree) IN
       /\ IsMp3Name(walk[idx].file.name) \/ IsMp4Name(walk[idx].file.name)
       /\ started' = Append(started, FilePath(walk[idx]))
    /\ processed_files' = processed_files + 1
    /\ pc' = "extracting"
    /\ UNCHANGED <<bpm_returned, runs, response>>
    /\ UNCHANGED <<impl, root, flag, output, tree, directory, audio_files,
                   total_files, idx, bpm_calls, results, disk, writes,
                   stdout, exit_status>>

\* legacy: the extractor returns; results.append(metadata); next file.
LegacyEnd ==
    /\ pc = "extracting"
    /\ impl = "legacy"
    /\ LET walk == Walk(directory, tree)
           e == walk[idx]
           is_mp3 == IsMp3Name(e.file.name)
       IN
       /\ results' = Append(results,
                            Extract(is_mp3, FilePath(e), e.file, flag))
       /\ bpm_calls' = IF CallsBpm(is_mp3, FilePath(e), e.file, flag)
                       THEN Append(bpm_calls, FilePath(e))
                       ELSE bpm_calls
       /\ pc' = IF idx = Len(walk) THEN "save" ELSE "process"
    /\ idx' = idx + 1
    /\ UNCHANGED <<bpm_returned, runs, response>>
    /\ UNCHANGED <<impl, root, flag, output, tree, directory, audio_files,
                   total_files, processed_files, started, disk, writes,
                   stdout, exit_status>>

\* ------------------------------------------------------------- save_metadata

\* Faulty variant: the fallback write follows the primary write whatever the
\* primary write's outcome.
SavePrimaryThenAlwaysFallback ==
    /\ pc = "save"
    /\ \E outcome \in WriteOutcomes :
        LET target == Normpath(output) IN
        /\ disk' = [disk EXCEPT
                      ![target] = Written(@, results, Len(writes) + 1, outcome)]
        /\ writes' = Append(writes, [target |-> target, outcome |-> outcome])
        /\ stdout' = Append(stdout, "Error saving metadata")
        /\ exit_status' = exit_status
        /\ pc' = "fallback"
    /\ UNCHANGED <<bpm_returned, runs, response>>
    /\ UNCHANGED <<impl, root, flag, output, tree, directory, audio_files,
                   total_files, processed_files, idx, started, bpm_calls,
                   results>>

\* The try block: the write to the normalised output_file.  main returns
\* after it and the process exits with status 0.
SavePrimary ==
    /\ pc = "save"
    /\ \E outcome \in WriteOutcomes :
        LET target == Normpath(output) IN
        /\ disk' = [disk EXCEPT
                      ![target] = Written(@, results, Len(writes) + 1, outcome)]
        /\ writes' = Append(writes, [target |-> target, outcome |-> outcome])
        /\ IF outcome = "ok"
           THEN /\ stdout' = Append(stdout, "Metadata saved")
                /\ exit_status' = 0
                /\ pc' = "exit"
           ELSE /\ stdout' = Append(stdout, "Error saving metadata")
                /\ exit_status' = exit_status
                /\ pc' = "fallback"
    /\ UNCHANGED <<bpm_returned, runs, response>>
    /\ UNCHANGED <<impl, root, flag, output, tree, directory, audio_files,
                   total_files, processed_files, idx, started, bpm_calls,
                   results>>

\* The except block: the write to the base name in the current directory.
\* An exception here leaves main: the process ends with status 1.
SaveFallback ==
    /\ pc = "fallback"
    /\ \E outcome \in WriteOutcomes :
        LET fallback_file == Basename(Normpath(output)) IN
        /\ disk' = [disk EXCEPT
                      ![fallback_file] =
                          Written(@, results, Len(writes) + 1, outcome)]
        /\ writes' = Append(writes,
                            [target |-> fallback_file, outcome |-> outcome])
        /\ IF outcome = "ok"
           THEN /\ stdout' = Append(stdout, "Metadata saved")
                /\ exit_status' = 0
           ELSE /\ stdout' = stdout
                /\ exit_status' = 1
        /\ pc' = "exit"
    /\ UNCHANGED <<bpm_returned, runs, response>>
    /\ UNCHANGED <<impl, root, flag, output, tree, directory, audio_files,
                   total_files, processed_files, idx, started, bpm_calls,
                   results>>

Next ==
    \/ ScanStart
    \/ CollectFiles
    \/ ExtractBegin
    \/ ExtractEnd
    \/ LegacyCount
    \/ LegacySkip
    \/ LegacyBegin
    \/ LegacyEnd
    \/ SavePrimary
    \/ SaveFallback

Spec == Init /\ [][Next]_vars

\* ------------------------------------------------ calculate_bpm called alone

\* The finite estimates of librosa.beat.tempo, in tenths of a beat per
\* minute: it answers one of the tempo bins of its 8 s window that lie
\* below max_tempo = 320, and the slowest bin is just above 60 / 8 = 7.5.
MinTempo10 == 75
MaxTempo10 == 3200

\* What librosa can make of a file's audio.
Audios ==
    { Audio(TRUE, t) : t \in MinTempo10..MaxTempo10 }
      \cup { Audio(FALSE, 0), NonFinite("inf"), NonFinite("nan") }

\* A call calculate_bpm(file_path) on a file of any audio content.
InitBpm ==
    /\ impl = "backend"
    /\ root = <<DirM>>
    /\ flag = TRUE
    /\ output = <<OutName>>
    /\ tree \in { <<[FileH EXCEPT !.audio = a]>> : a \in Audios }
    /\ pc = "bpm"
    /\ directory = <<>>
    /\ audio_files = <<>>
    /\ total_files = 0
    /\ processed_files = 0
    /\ idx = 1
    /\ started = <<>>
    /\ bpm_calls = <<>>
    /\ results = <<>>
    /\ disk = [t \in Targets |-> Absent]
    /\ writes = <<>>
    /\ stdout = <<>>
    /\ exit_status = -1
    /\ bpm_returned = None
    /\ runs = <<>>
    /\ response = NoResponse

\* The call returns; the except branch prints its diagnostic.
CalculateBpm ==
    /\ pc = "bpm"
    /\ bpm_returned' = calculate_bpm(tree[1])
    /\ stdout' = IF calculate_bpm(tree[1]) = None
                 THEN Append(stdout, "Error calculating BPM")
                 ELSE stdout
    /\ pc' = "returned"
    /\ UNCHANGED <<runs, response>>
    /\ UNCHANGED <<impl, root, flag, output, tree, directory, audio_files,
                   total_files, processed_files, idx, started, bpm_calls,
                   results, disk, writes, exit_status>>

SpecBpm == InitBpm /\ [][CalculateBpm]_vars

\* ------------------------------------------------- an extractor called alone

\* Audio for which calculate_bpm returns any value of its type: the finite
\* estimates here start at 0, below what librosa.beat.tempo answers, so
\* that round() gives 0 and the extractors' "if bpm:" has both outcomes.
AnyAudios ==
    { Audio(TRUE, t) : t \in 0..MaxTempo10 }
      \cup { Audio(FALSE, 0), NonFinite("inf"), NonFinite("nan") }

\* The files scan_directory hands to an extractor.
AudioFiles == { f \in Files : IsAudioName(f.name) }

\* A call of extract_mp3_metadata or extract_mp4_metadata on one file.
InitExtract ==
    /\ impl = "backend"
    /\ root = <<DirM>>
    /\ flag \in BOOLEAN
    /\ output = <<OutName>>
    /\ tree \in { <<[f EXCEPT !.audio = a]>> : f \in AudioFiles,
                                               a \in AnyAudios }
    /\ pc = "extract"
    /\ directory = <<>>
    /\ audio_files = <<>>
    /\ total_files = 0
    /\ processed_files = 0
    /\ idx = 1
    /\ started = <<>>
    /\ bpm_calls = <<>>
    /\ results = <<>>
    /\ disk = [t \in Targets |-> Absent]
    /\ writes = <<>>
    /\ stdout = <<>>
    /\ exit_status = -1
    /\ bpm_returned = None
    /\ runs = <<>>
    /\ response = NoResponse

\* The extractor returns its dict; bpm_returned is what its call of
\* calculate_bpm, if it made one, returned.
ExtractAlone ==
    /\ pc = "extract"
    /\ LET e == Walk(<<DirM>>, tree)[1]
           is_mp3 == IsMp3Name(e.file.name)
           calls == CallsBpm(is_mp3, FilePath(e), e.file, flag)
       IN
       /\ started' = Append(started, FilePath(e))
       /\ results' = Append(results,
                            Extract(is_mp3, FilePath(e), e.file, flag))
       /\ bpm_calls' = IF calls THEN Append(bpm_calls, FilePath(e))
                       ELSE bpm_calls
       /\ bpm_returned' = IF calls THEN calculate_bpm(e.file) ELSE None
    /\ pc' = "returned"
    /\ UNCHANGED <<runs, response>>
    /\ UNCHANGED <<impl, root, flag, output, tree, directory, audio_files,
                   total_files, processed_files, idx, disk, writes, stdout,
                   exit_status>>

SpecExtract == InitExtract /\ [][ExtractAlone]_vars

\* ------------------------------------------------------ the pipeline twice

\* A completed call of scan_directory: which scanner ran, what it returned.
Run(i, r) == [impl |-> i, results |-> r]

\* One scan, then a second one over the same tree.
InitTwice ==
    /\ Init
    /\ output = <<OutDir, OutName>>

\* Faulty variant: the second scan starts with the first scan's results
\* list.
RunAgainKeepingResults ==
    /\ pc = "save"
    /\ runs = <<>>
    /\ runs' = Append(runs, Run(impl, results))
    /\ disk' = [disk EXCEPT
                  ![Normpath(output)] = Report(results, Len(runs) + 1)]
    /\ impl' \in {"backend", "legacy"}
    /\ pc' = "scan"
    /\ directory' = <<>>
    /\ audio_files' = <<>>
    /\ total_files' = 0
    /\ processed_files' = 0
    /\ idx' = 1
    /\ started' = <<>>
    /\ bpm_calls' = <<>>
    /\ results' = results
    /\ stdout' = <<>>
    /\ UNCHANGED <<bpm_returned, response>>
    /\ UNCHANGED <<root, flag, output, tree, writes, exit_status>>

\* The first process saves its report and ends; a second process, running
\* either scanner, calls scan_directory with the same arguments over the
\* same tree.  Every local of scan_directory is created anew by the call.
RunAgain ==
    /\ pc = "save"
    /\ runs = <<>>
    /\ runs' = Append(runs, Run(impl, results))
    /\ disk' = [disk EXCEPT
                  ![Normpath(output)] = Report(results, Len(runs) + 1)]
    /\ impl' \in {"backend", "legacy"}
    /\ pc' = "scan"
    /\ directory' = <<>>
    /\ audio_files' = <<>>
    /\ total_files' = 0
    /\ processed_files' = 0
    /\ idx' = 1
    /\ started' = <<>>
    /\ bpm_calls' = <<>>
    /\ results' = <<>>
    /\ stdout' = <<>>
    /\ UNCHANGED <<bpm_returned, response>>
    /\ UNCHANGED <<root, flag, output, tree, writes, exit_status>>

NextTwice ==
    \/ ScanStart
    \/ CollectFiles
    \/ ExtractBegin
    \/ ExtractEnd
    \/ LegacyCount
    \/ LegacySkip
    \/ LegacyBegin
    \/ LegacyEnd
    \/ RunAgain

SpecTwice == InitTwice /\ [][NextTwice]_vars

\* ------------------------------------------------- GET /audio_metadata

\* Path(__file__).parent / "audio_metadata.json"
METADATA_FILE == <<<<"b">>, <<"a", ".", "j", "s", "o", "n">>>>

\* What a scan of directory m with tempo estimation returns.
Scanned(t) ==
    LET a == Collected(Walk(<<DirM>>, t)) IN
    [k \in 1..Len(a) |-> Extract(a[k].is_mp3, a[k].file_path, a[k].file, TRUE)]

\* What METADATA_FILE can be when a request arrives: missing, cut short by
\* a failed json.dump, or the report an earlier run of the extractor saved.
Cached(t) == { Absent, Partial, Report(Scanned(t), 1) }

\* The positions at which the handler is not running: before the first
\* request, and after the return or raise that ended the last one.
Idle == { "request", "return_data", "raise_reading", "raise_generating" }

InitApi ==
    /\ impl = "backend"
    /\ root = <<DirM>>
    /\ flag = TRUE
    /\ output = METADATA_FILE
    /\ tree \in Trees
    /\ pc = "request"
    /\ directory = <<>>
    /\ audio_files = <<>>
    /\ total_files = 0
    /\ processed_files = 0
    /\ idx = 1
    /\ started = <<>>
    /\ bpm_calls = <<>>
    /\ results = <<>>
    /\ disk \in { [t \in {METADATA_FILE} |-> c] : c \in Cached(tree) }
    /\ writes = <<>>
    /\ stdout = <<>>
    /\ exit_status = -1
    /\ bpm_returned = None
    /\ runs = <<>>
    /\ response = NoResponse

\* Faulty variant: a cached file that cannot be read or parsed is replaced
\* by a newly generated report, which is returned.
GetCachedRegenerating ==
    /\ pc \in Idle
    /\ disk[METADATA_FILE].kind # "absent"
    /\ \E opens \in BOOLEAN :
        IF opens /\ disk[METADATA_FILE].kind = "report"
        THEN /\ response' = Ok200(disk[METADATA_FILE])
             /\ UNCHANGED <<disk, writes>>
        ELSE /\ disk' = [disk EXCEPT
                           ![METADATA_FILE] = Report(Scanned(tree), 2)]
             /\ writes' = Append(writes, [target |-> METADATA_FILE,
                                          outcome |-> "ok"])
             /\ response' = Ok200(Report(Scanned(tree), 2))
    /\ pc' = "return_data"
    /\ UNCHANGED <<bpm_returned, runs>>
    /\ UNCHANGED <<impl, root, flag, output, tree, directory, audio_files,
                   total_files, processed_files, idx, started, bpm_calls,
                   results, stdout, exit_status>>

\* METADATA_FILE.exists(): the file is opened and parsed; what json.load
\* gives is returned, and any exception becomes the 500 answer.
GetCached ==
    /\ pc \in Idle
    /\ disk[METADATA_FILE].kind # "absent"
    /\ \E opens \in BOOLEAN :
        IF opens /\ disk[METADATA_FILE].kind = "report"
        THEN /\ response' = Ok200(disk[METADATA_FILE])
             /\ pc' = "return_data"
        ELSE /\ response' = HTTPException(500, "Error reading metadata")
             /\ pc' = "raise_reading"
    /\ UNCHANGED <<bpm_returned, runs>>
    /\ UNCHANGED <<impl, root, flag, output, tree, directory, audio_files,
                   total_files, processed_files, idx, started, bpm_calls,
                   results, disk, writes, stdout, exit_status>>

\* METADATA_FILE does not exist: "from metadata_extractor import
\* extract_metadata" raises ImportError, for metadata_extractor defines no
\* extract_metadata; the except clause turns it into the 500 answer, and
\* the rest of the branch is never reached.
GetGenerate ==
    /\ pc \in Idle
    /\ disk[METADATA_FILE].kind = "absent"
    /\ response' = HTTPException(500, "Error generating metadata")
    /\ pc' = "raise_generating"
    /\ UNCHANGED <<bpm_returned, runs>>
    /\ UNCHANGED <<impl, root, flag, output, tree, directory, audio_files,
                   total_files, processed_files, idx, started, bpm_calls,
                   results, disk, writes, stdout, exit_status>>

NextApi ==
    \/ GetCached
    \/ GetGenerate

SpecApi == InitApi /\ [][NextApi]_vars

\* ==================================================================== claims

\* ---- what the claims speak of, stated without the scanner's own tests

RECURSIVE LastDot(_, _)
\* The position of the last "." among the first n characters, or 0.
LastDot(name, n) ==
    IF n = 0 THEN 0
    ELSE IF name[n] = "." THEN n ELSE LastDot(name, n - 1)

\* The extension of a file name: what follows its last ".".
Ext(name) ==
    LET d == LastDot(name, Len(name)) IN
    IF d = 0 THEN <<>> ELSE SubSeq(name, d + 1, Len(name))

ExtMp3 == <<"m", "p", "3">>
ExtMp4 == <<"m", "p", "4">>
ExtM4a == <<"m", "4", "a">>

\* The file's extension matches the supported set, whatever its case.
HasAudioExt(name) == Lower(Ext(name)) \in {ExtMp3, ExtMp4, ExtM4a}
HasMp3Ext(name) == Lower(Ext(name)) = ExtMp3

\* The directory argument names an existing directory.
RootExists == IsDir(root)

\* The files below the directory argument, in discovery order, the eligible
\* ones among them, and the others.
Discovered == Walk(Normpath(root), tree)
Eligible == SelectSeq(Discovered, LAMBDA e : HasAudioExt(e.file.name))
Ineligible == SelectSeq(Discovered, LAMBDA e : ~HasAudioExt(e.file.name))

\* scan_directory has returned its results to main.
ScanReturned ==
    \/ pc \in {"save", "fallback"}
    \/ pc = "exit" /\ writes # <<>>

\* The container and the audio-stream header of the file are those of the
\* format its extension selects.
ValidContainer(e) ==
    IF HasMp3Ext(e.file.name)
    THEN e.file.fmt = "mp3" /\ e.file.id3 # "trunc"
    ELSE e.file.fmt = "mp4"

\* A tag the MP4 probe reads holds an empty list.
Mp4TagUnreadable(f) ==
    \E i \in DOMAIN Mp4TagMapping :
        LET id == FirstPresent(Mp4TagMapping[i][2], f.tags) IN
        id # "" /\ f.tags[id].isList /\ f.tags[id].items = <<>>

\* Opening the file, reading its stream header or reading its tags fails.
ParseFails(e) ==
    IF HasMp3Ext(e.file.name)
    THEN e.file.fmt # "mp3" \/ e.file.id3 # "ok"
    ELSE e.file.fmt # "mp4" \/ Mp4TagUnreadable(e.file)

\* The file is corrupt: its bytes are not a readable container.
Corrupt(e) == ~ValidContainer(e)

StructuralKeys == {"file_type", "duration", "bitrate", "sample_rate", "channels"}
TagKeys == {"title", "artist", "album", "year", "genre", "track_number",
            "bpm", "key", "composer", "publisher", "initial_key", "comment",
            "copyright", "album_artist"}
PayloadKeys == StructuralKeys \cup TagKeys \cup {"bpm_calculated"}

\* The last write attempt succeeded.
Saved == writes # <<>> /\ writes[Len(writes)].outcome = "ok"

\* The document of the last write attempt.
SavedDoc == disk[writes[Len(writes)].target]

\* ---- C1

\* C1: the extractors never raise to the caller: every call returns exactly
\* one record (the results grow by one per extraction begun), and when
\* opening the file, reading the stream header or reading the tags fails,
\* that record's only keys are file_path and error, also when the failure
\* comes after the structural fields were computed.
C1_ErrorRecordOnly ==
    LET eligible == Eligible IN
    /\ Len(started) = Len(results) + (IF pc = "extracting" THEN 1 ELSE 0)
    /\ Len(results) <= Len(eligible)
    /\ \A k \in 1..Len(results) :
          ParseFails(eligible[k]) =>
              /\ DOMAIN results[k] = {"file_path", "error"}
              /\ results[k].file_path = FilePath(eligible[k])

\* A failure after the structural fields were computed (an unreadable tag
\* of a valid MP4) has produced its record.
C1_Witness ==
    \E k \in 1..Len(results) :
        /\ k <= Len(Eligible)
        /\ ValidContainer(Eligible[k])
        /\ ~HasMp3Ext(Eligible[k].file.name)
        /\ ParseFails(Eligible[k])
        /\ "error" \in DOMAIN results[k]

\* ---- C2

\* C2: for every file whose container and audio-stream header are valid,
\* whatever tags it carries or lacks, the record its extractor returns in
\* a scan of an existing directory has duration >= 0, sample_rate > 0,
\* channels >= 1 and no error field.
C2_ValidFileHasStructure ==
    \A k \in 1..Len(results) :
        (RootExists /\ k <= Len(Eligible) /\ ValidContainer(Eligible[k])) =>
            /\ "error" \notin DOMAIN results[k]
            /\ {"duration", "sample_rate", "channels"} \subseteq DOMAIN results[k]
            /\ results[k].duration >= 0
            /\ results[k].sample_rate > 0
            /\ results[k].channels >= 1

\* ---- C3

\* The record a file gets when it is extracted on its own.
RecordAlone(e) ==
    Extract(HasMp3Ext(e.file.name), FilePath(e), e.file, flag)

\* Every file scanned so far has the record it gets on its own, every
\* corrupt one an error record, and the scan runs to the last file.
SiblingsUnaffected ==
    LET eligible == Eligible IN
    /\ Len(results) <= Len(eligible)
    /\ \A k \in 1..Len(results) :
          /\ results[k] = RecordAlone(eligible[k])
          /\ Corrupt(eligible[k]) =>
                ("error" \in DOMAIN results[k]
                 /\ DOMAIN results[k] \cap PayloadKeys = {})
    /\ pc \in {"save", "fallback", "exit"} => Len(results) = Len(eligible)

\* C3 as claimed: a per-file parse failure does not affect sibling files,
\* the scan runs to the last file, and the process then writes the report
\* and exits with status zero.
C3_AlwaysExitsZero ==
    (RootExists /\ \E k \in 1..Len(Eligible) : Corrupt(Eligible[k])) =>
        /\ SiblingsUnaffected
        /\ pc = "exit" =>
              /\ exit_status = 0
              /\ Saved
              /\ SavedDoc.kind = "report"
              /\ SavedDoc.metadata = results

\* C3, amended: a per-file parse failure does not affect sibling files:
\* every file gets the record it gets on its own, every corrupt file gets
\* an error record, the scan runs to the last file, and main then calls
\* save_metadata with the results; the process exits with status zero with
\* the report written, unless the write failed at both the primary and the
\* fallback target, in which case it exits with status one.
C3_FailureIsolated ==
    RootExists =>
        /\ SiblingsUnaffected
        /\ pc = "exit" =>
              /\ writes # <<>>
              /\ exit_status = (IF Saved THEN 0 ELSE 1)
              /\ Saved => (SavedDoc.kind = "report"
                            /\ SavedDoc.metadata = results)
              /\ ~Saved => Len(writes) = 2

\* The process has exited with status zero after a scan in which a corrupt
\* file came before a readable one.
C3_Witness ==
    /\ RootExists
    /\ pc = "exit"
    /\ exit_status = 0
    /\ \E i, j \in 1..Len(results) :
          /\ i < j
          /\ Corrupt(Eligible[i])
          /\ "error" \in DOMAIN results[i]
          /\ ~Corrupt(Eligible[j])
          /\ "error" \notin DOMAIN results[j]

\* ---- C4

\* C4: over a valid root whose tree holds N files with a supported
\* extension (in any case) and M others, scan_directory returns exactly N
\* records and every report written from them has file_count = N.
C4_ExactlyNRecords ==
    (RootExists /\ ScanReturned) =>
        /\ Len(results) = Len(Eligible)
        /\ \A t \in Targets :
              disk[t].kind = "report" => disk[t].file_count = Len(Eligible)

\* A report is on disk for a tree with N >= 1 eligible files, one of them
\* with an upper-case extension, and M >= 1 others.
C4_Witness ==
    /\ RootExists
    /\ pc = "exit"
    /\ Saved
    /\ SavedDoc.file_count = Len(Eligible)
    /\ Len(Ineligible) >= 1
    /\ \E k \in 1..Len(Eligible) :
          Ext(Eligible[k].file.name) # Lower(Ext(Eligible[k].file.name))

\* ---- C5

\* No element of the sequence occurs twice.
NoRepeats(s) == \A i, j \in 1..Len(s) : i # j => s[i] # s[j]

\* C5: the results are the records of the eligible files in discovery
\* order, each file extracted exactly once, one at a time: the k-th record
\* and the k-th extraction are those of the k-th discovered eligible file,
\* no path occurs twice, an extraction begins only when the one before it
\* has put its record in the results, and at the end every eligible file has
\* been extracted.
C5_DiscoveryOrderOnce ==
    LET eligible == Eligible IN
    /\ Len(started) <= Len(eligible)
    /\ \A k \in 1..Len(started) : started[k] = FilePath(eligible[k])
    /\ \A k \in 1..Len(results) :
          /\ k <= Len(started)
          /\ results[k].file_path = started[k]
    /\ NoRepeats(started)
    /\ NoRepeats([k \in 1..Len(results) |-> results[k].file_path])
    /\ Len(started) - Len(results) \in {0, 1}
    /\ (Len(started) > Len(results)) = (pc = "extracting")
    /\ ScanReturned => Len(results) = Len(eligible)

\* A scan has returned two records whose discovery order (the file of m
\* before the file of its sub-directory) differs from the listing order.
C5_Witness ==
    /\ ScanReturned
    /\ Len(results) = 2
    /\ Len(tree) = 2
    /\ tree[1].sub
    /\ ~tree[2].sub
    /\ results[1].file_path = FilePath(Eligible[1])
    /\ Eligible[1].file = tree[2]

\* ---- C6

\* The tag that holds the tempo in the file's container.
TempoTag(e) == IF HasMp3Ext(e.file.name) THEN "TBPM" ELSE "tmpo"

\* The file parsed and its tags hold no tempo.
TempoAbsentAfterParsing(e) ==
    ~ParseFails(e) /\ TempoTag(e) \notin DOMAIN e.file.tags

\* calculate_bpm was invoked on the file and returned a positive integer.
EstimatorSucceeded(e) ==
    /\ \E i \in 1..Len(bpm_calls) : bpm_calls[i] = FilePath(e)
    /\ ~calculate_bpm(e.file).none
    /\ calculate_bpm(e.file).val > 0

HasBpmCalculated(r) == "bpm_calculated" \in DOMAIN r /\ r.bpm_calculated

\* C6: for every file and flag value, the record has bpm_calculated = true
\* if and only if the tempo was absent after tag parsing and calculate_bpm
\* succeeded on the file; a record whose bpm was read from a tag carries
\* that tag's string and no bpm_calculated.
C6_BpmCalculatedIff ==
    LET eligible == Eligible IN
    \A k \in 1..Len(results) :
        k <= Len(eligible) =>
            LET e == eligible[k]
                r == results[k]
            IN  /\ HasBpmCalculated(r) <=>
                       (TempoAbsentAfterParsing(e) /\ EstimatorSucceeded(e))
                /\ "bpm_calculated" \in DOMAIN r => r.bpm_calculated
                /\ (~ParseFails(e) /\ TempoTag(e) \in DOMAIN e.file.tags) =>
                       /\ "bpm_calculated" \notin DOMAIN r
                       /\ r.bpm = StrAtom(e.file.tags[TempoTag(e)].items[1])

\* With the flag set, one record has its tempo from the estimator and
\* another has it from its tag.
C6_Witness ==
    /\ flag
    /\ \E i, j \in 1..Len(results) :
          /\ HasBpmCalculated(results[i])
          /\ "bpm" \in DOMAIN results[j]
          /\ "bpm_calculated" \notin DOMAIN results[j]
          /\ results[j].bpm = "128"

\* ---- C7

\* (a) a non-empty error and none of the structural or tag fields
ErrorShape(r) ==
    /\ "error" \in DOMAIN r
    /\ r.error # ""
    /\ DOMAIN r \cap PayloadKeys = {}

\* (b) no error and the structural payload
PayloadShape(r) ==
    /\ "error" \notin DOMAIN r
    /\ StructuralKeys \subseteq DOMAIN r

\* C7: every record in the results of a scan is exactly one of (a) a
\* non-empty error without structural or tag fields, (b) the structural
\* payload without error.
C7_ErrorXorPayload ==
    RootExists =>
        \A k \in 1..Len(results) :
            ErrorShape(results[k]) # PayloadShape(results[k])

\* ---- C8

\* C8: in every report document save_metadata writes, to the primary or to
\* the fallback target, file_count is the length of that document's
\* metadata sequence.
C8_FileCountIsLength ==
    \A t \in Targets :
        disk[t].kind = "report" =>
            /\ disk[t].file_count = Len(disk[t].metadata)
            /\ disk[t].metadata = results

\* The fallback target, another file than the primary one, holds a report
\* of at least one record after the primary write failed.
C8_Witness ==
    /\ Len(writes) = 2
    /\ writes[1].outcome # "ok"
    /\ writes[2].outcome = "ok"
    /\ writes[1].target # writes[2].target
    /\ disk[writes[2].target].kind = "report"
    /\ disk[writes[2].target].file_count >= 1
    /\ \E k \in 1..Len(results) : "error" \in DOMAIN results[k]

\* ---- C9

\* C9: when the root passed to scan_directory is not an existing directory,
\* the run fails before any report is produced: the diagnostic is printed,
\* no file is extracted, save_metadata is never called, no output file is
\* written and the process ends with a non-zero status.
C9_InvalidRootIsFatal ==
    (~RootExists /\ pc # "scan") =>
        /\ pc = "exit"
        /\ exit_status > 0
        /\ stdout = <<"is not a valid directory">>
        /\ started = <<>>
        /\ results = <<>>
        /\ writes = <<>>
        /\ \A t \in Targets : disk[t] = Absent

\* ---- C10

\* Nothing below the root is eligible, no extractor runs and the results
\* stay empty; whatever report is written has file_count 0 and an empty
\* metadata array.
EmptyScan ==
    /\ started = <<>>
    /\ bpm_calls = <<>>
    /\ results = <<>>
    /\ \A t \in Targets :
          disk[t].kind = "report" =>
              (disk[t].file_count = 0 /\ disk[t].metadata = <<>>)

\* C10 as claimed: over a valid root whose tree is empty or holds only
\* ineligible files, scan_directory returns an empty sequence without
\* invoking an extractor and the run succeeds: it writes a report with
\* file_count 0 and an empty metadata array.
C10_EmptyAlwaysSucceeds ==
    (RootExists /\ Len(Eligible) = 0) =>
        /\ EmptyScan
        /\ pc = "exit" =>
              /\ exit_status = 0
              /\ Saved
              /\ SavedDoc.kind = "report"

\* C10, amended: over a valid root whose tree is empty or holds only
\* ineligible files, scan_directory returns an empty sequence without
\* invoking an extractor and without a fatal error, and main calls
\* save_metadata: the run writes a report with file_count 0 and an empty
\* metadata array and exits with status zero, unless the write failed at
\* both the primary and the fallback target.
C10_EmptyScanSaves ==
    (RootExists /\ Len(Eligible) = 0) =>
        /\ EmptyScan
        /\ pc # "scan" => stdout[1] = "Scanning directory"
        /\ pc = "exit" =>
              /\ writes # <<>>
              /\ exit_status = (IF Saved THEN 0 ELSE 1)
              /\ Saved => (SavedDoc.kind = "report"
                            /\ SavedDoc.file_count = 0
                            /\ SavedDoc.metadata = <<>>)
              /\ ~Saved => Len(writes) = 2

\* The run over a tree of ineligible files only has written its empty
\* report and exited with status zero.
C10_Witness ==
    /\ RootExists
    /\ Len(Eligible) = 0
    /\ Len(Ineligible) >= 1
    /\ pc = "exit"
    /\ exit_status = 0
    /\ Saved
    /\ SavedDoc.file_count = 0

\* ---- C11

\* The file of the given base name in the current working directory.
InCwd(name) == <<name>>

\* The base filename of a normalised path: its last component.
BaseFilename(p) == p[Len(p)]

\* C11: save_metadata writes in two steps.  The first attempt is at the
\* primary target; a second attempt exists only after a failed first one,
\* is the only one, and goes to the same base filename in the current
\* working directory; after a successful primary write save_metadata has
\* returned with no further write; a failed primary write is followed by
\* the fallback attempt; a failed fallback write ends the run fatally, and
\* there is never a third attempt.
C11_TwoStepWrite ==
    LET primary == Normpath(output) IN
    /\ Len(writes) <= 2
    /\ pc \in {"save", "fallback"} => exit_status = -1
    /\ pc = "fallback" => Len(writes) = 1
    /\ Len(writes) >= 1 =>
          /\ writes[1].target = primary
          /\ writes[1].outcome = "ok" =>
                (Len(writes) = 1 /\ pc = "exit" /\ exit_status = 0)
          /\ writes[1].outcome # "ok" =>
                (Len(writes) = 2 \/ pc = "fallback")
    /\ Len(writes) = 2 =>
          /\ writes[1].outcome # "ok"
          /\ writes[2].target = InCwd(BaseFilename(primary))
          /\ pc = "exit"
          /\ exit_status = (IF writes[2].outcome = "ok" THEN 0 ELSE 1)

\* Both attempts were made, at two different targets, and both failed: the
\* run has ended with status 1.
C11_Witness ==
    /\ Len(writes) = 2
    /\ writes[1].target # writes[2].target
    /\ writes[2].outcome # "ok"
    /\ pc = "exit"
    /\ exit_status = 1

\* ---- C12

\* The audio cannot be decoded, or its tempo estimate is not a number
\* round() converts.
EstimationFails(f) == ~f.audio.decodes \/ f.audio.estimate # "finite"

\* C12: calculate_bpm never returns zero or a negative value: whatever the
\* audio, it returns a positive integer or None, and it returns None, not
\* 0, when decoding or estimation fails.
C12_PositiveOrNone ==
    pc = "returned" =>
        /\ bpm_returned = None
              \/ (~bpm_returned.none /\ bpm_returned.val \in Nat \ {0})
        /\ EstimationFails(tree[1]) => bpm_returned = None

\* calculate_bpm has returned None for audio that does not decode.
C12_Witness ==
    /\ pc = "returned"
    /\ ~tree[1].audio.decodes
    /\ bpm_returned = None
    /\ stdout = <<"Error calculating BPM">>

\* ---- C13

\* The paths of the eligible files, in discovery order.
EligiblePaths ==
    LET eligible == Eligible IN
    [k \in 1..Len(eligible) |-> FilePath(eligible[k])]

\* C13: with tempo estimation disabled, a second run of scan_directory over
\* the unchanged tree returns the sequence the first run returned (same
\* records, fields and order); it extracts every eligible file again, and
\* the report the first run saved is as that run wrote it.
C13_SecondRunIdentical ==
    (runs # <<>> /\ runs[1].impl = impl /\ ~flag /\ pc = "save") =>
        /\ results = runs[1].results
        /\ started = EligiblePaths
        /\ bpm_calls = <<>>
        /\ disk[Normpath(output)] = Report(runs[1].results, 1)

\* The backend scanner has run twice over a tree with a readable and an
\* unreadable file, and both runs returned two records.
C13_Witness ==
    /\ runs # <<>>
    /\ runs[1].impl = "backend"
    /\ impl = "backend"
    /\ ~flag
    /\ pc = "save"
    /\ Len(results) = 2
    /\ \E i, j \in 1..2 :
          "error" \in DOMAIN results[i] /\ "error" \notin DOMAIN results[j]

\* ---- C14

\* The last request found no report file.
FoundNoReport == pc = "raise_generating"

\* C14 as claimed: a request that finds no report on disk ends with the
\* report a scan of the default directory generates: status 200, the
\* document as body, and the same document at METADATA_FILE.
C14_AbsentReportIsGenerated ==
    FoundNoReport =>
        /\ response.status_code = 200
        /\ response.body.kind = "report"
        /\ response.body.metadata = Scanned(tree)
        /\ disk[METADATA_FILE] = response.body

\* ---- C15

\* The last request found a file at METADATA_FILE.
FoundReport == pc \in {"return_data", "raise_reading"}

\* C15: a request that finds the report file answers with its parsed
\* content, runs no scan and writes no file; a file that cannot be read or
\* parsed gives the 500 answer "Error reading metadata" and is left as it
\* is; and every request ends with a report document or with a 500 answer
\* that carries a diagnostic.
C15_CachedReportServed ==
    /\ FoundReport =>
          /\ started = <<>> /\ results = <<>> /\ bpm_calls = <<>>
          /\ writes = <<>>
          /\ disk[METADATA_FILE] \in Cached(tree) \ {Absent}
          /\ response.status_code = 200 =>
                /\ response.body = disk[METADATA_FILE]
                /\ response.body.kind = "report"
          /\ disk[METADATA_FILE].kind # "report" =>
                /\ response.status_code = 500
                /\ response.detail = "Error reading metadata"
    /\ pc # "request" =>
          \/ response.status_code = 200 /\ response.body.kind = "report"
          \/ response.status_code = 500 /\ response.detail # ""

\* A request found a file cut short and was answered 500; the file is
\* still the one cut short.
C15_Witness ==
    /\ pc = "raise_reading"
    /\ disk[METADATA_FILE] = Partial
    /\ response.status_code = 500
    /\ tree # <<>>

\* ---- C16

\* calculate_bpm was invoked on the file.
EstimatorInvoked(e) == \E i \in 1..Len(bpm_calls) : bpm_calls[i] = FilePath(e)

\* C16: calculate_bpm is invoked on a file only if the file parsed, its
\* tags hold no tempo and the flag is set: never on a file whose record is
\* an error record, never on a file with a tempo tag, never with the flag
\* unset; and on no file more than once.
C16_EstimatorOnlyWhenDue ==
    LET eligible == Eligible IN
    /\ NoRepeats(bpm_calls)
    /\ ~flag => bpm_calls = <<>>
    /\ \A i \in 1..Len(bpm_calls) :
          \E k \in 1..Len(eligible) : bpm_calls[i] = FilePath(eligible[k])
    /\ \A k \in 1..Len(eligible) :
          EstimatorInvoked(eligible[k]) =>
              /\ flag
              /\ ~ParseFails(eligible[k])
              /\ TempoTag(eligible[k]) \notin DOMAIN eligible[k].file.tags
              /\ k <= Len(results) =>
                    "error" \notin DOMAIN results[k]

\* With the flag set, a scan of a file that parsed without a tempo tag and
\* of a file that did not parse has invoked calculate_bpm once.
C16_Witness ==
    /\ flag
    /\ RootExists
    /\ pc = "save"
    /\ Len(results) = 2
    /\ Len(bpm_calls) = 1
    /\ \E k \in 1..2 : "error" \in DOMAIN results[k]

\* ---- C17

\* The record the file gets when no tempo estimation is requested.
RecordWithoutEstimation(e) ==
    Extract(HasMp3Ext(e.file.name), FilePath(e), e.file, FALSE)

\* C17: when calculate_bpm is invoked on a parsed file and fails, the
\* file's record is the one it gets without estimation, with all its
\* structural fields and tag fields: it has no bpm, no bpm_calculated and
\* no error field, and the scan goes on to the last file.
C17_EstimatorFailureIsSilent ==
    LET eligible == Eligible IN
    \A k \in 1..Len(results) :
        k <= Len(eligible) =>
            LET e == eligible[k]
                r == results[k]
            IN  (EstimatorInvoked(e) /\ EstimationFails(e.file)) =>
                    /\ r = RecordWithoutEstimation(e)
                    /\ StructuralKeys \subseteq DOMAIN r
                    /\ DOMAIN r \cap {"bpm", "bpm_calculated", "error"} = {}
                    /\ ScanReturned => Len(results) = Len(eligible)

\* calculate_bpm has failed on g.MP4, the first of two files: its record
\* has its genre and copyright and no bpm, and the second file has its
\* record too.
C17_Witness ==
    /\ flag
    /\ RootExists
    /\ ScanReturned
    /\ Len(results) = 2
    /\ Len(bpm_calls) >= 1
    /\ bpm_calls[1] = results[1].file_path
    /\ "genre" \in DOMAIN results[1]
    /\ "copyright" \in DOMAIN results[1]
    /\ "bpm" \notin DOMAIN results[1]

\* ---- C18

\* The tag mapping of the extractor the file's extension selects.
TagMappingOf(e) ==
    IF HasMp3Ext(e.file.name) THEN Mp3TagMapping ELSE Mp4TagMapping

\* The position in ids of the first identifier present in tags, or 0.
FirstOf(ids, tags) ==
    LET present == { i \in 1..Len(ids) : ids[i] \in DOMAIN tags } IN
    IF present = {} THEN 0
    ELSE CHOOSE i \in present : \A j \in present : i <= j

\* C18 as claimed: for every logical field of every scanned file, the
\* record holds the field exactly when one of the field's identifiers is
\* present in the file's tags, and its value is then the string form of
\* the first identifier present, whatever later identifiers hold.  (A bpm
\* the estimator supplied, marked bpm_calculated, is not counted as a
\* probed field.)
C18_FirstMatchWins ==
    LET eligible == Eligible IN
    RootExists =>
        \A k \in 1..Len(results) :
            k <= Len(eligible) =>
                LET e == eligible[k]
                    r == results[k]
                    mapping == TagMappingOf(e)
                IN  \A m \in 1..Len(mapping) :
                        LET key == mapping[m][1]
                            ids == mapping[m][2]
                            i == FirstOf(ids, e.file.tags)
                        IN  IF i = 0
                            THEN key \in DOMAIN r =>
                                   (key = "bpm" /\ HasBpmCalculated(r))
                            ELSE /\ key \in DOMAIN r
                                 /\ e.file.tags[ids[i]].items # <<>> =>
                                       r[key] =
                                         StrAtom(e.file.tags[ids[i]].items[1])

\* ---- C19

\* C19 as claimed: for every MP4 file with a valid container and every
\* tag of the mapping that is present, the record has the structural
\* fields and the tag's field: of a list value, whatever its length, the
\* string form of its first element, of any other value its string form.
C19_ListOfAnyLength ==
    LET eligible == Eligible IN
    RootExists =>
        \A k \in 1..Len(results) :
            (k <= Len(eligible)
               /\ ~HasMp3Ext(eligible[k].file.name)
               /\ eligible[k].file.fmt = "mp4") =>
                LET tags == eligible[k].file.tags
                    r == results[k]
                IN  \A m \in 1..Len(Mp4TagMapping) :
                        LET key == Mp4TagMapping[m][1]
                            ids == Mp4TagMapping[m][2]
                            i == FirstOf(ids, tags)
                        IN  i # 0 =>
                              /\ StructuralKeys \subseteq DOMAIN r
                              /\ "error" \notin DOMAIN r
                              /\ key \in DOMAIN r
                              /\ tags[ids[i]].items # <<>> =>
                                    r[key] = StrAtom(tags[ids[i]].items[1])

\* ---- C20

\* C20: over the same tree and flag the two-walk scanner and the
\* collecting scanner return the same sequence of records, whichever ran
\* first; in the two-walk scanner processed_files never exceeds
\* total_files and is the number of results when the scan returns.
C20_ScannersEquivalent ==
    /\ (runs # <<>> /\ runs[1].impl # impl /\ pc = "save") =>
           results = runs[1].results
    /\ impl = "legacy" =>
           /\ processed_files <= total_files
           /\ pc = "save" =>
                 (processed_files = Len(results)
                  /\ processed_files = total_files)

\* The collecting scanner has returned, after the two-walk scanner, two
\* records over a tree with an .m4a file, one of them with an estimated
\* tempo.
C20_Witness ==
    /\ RootExists
    /\ flag
    /\ runs # <<>>
    /\ runs[1].impl = "legacy"
    /\ impl = "backend"
    /\ pc = "save"
    /\ Len(results) = 2
    /\ \E k \in 1..2 : HasBpmCalculated(results[k])
    /\ \E k \in 1..2 : results[k].file_path[Len(results[k].file_path)]
                           = <<"f", ".", "m", "4", "a">>

\* ---- C21

\* C21: in the record an extractor returns, bpm_calculated is absent or
\* True; when it is True, calculate_bpm was called and returned a nonzero
\* integer, bpm is that integer's decimal string, and the record has no
\* error field; and when calculate_bpm returned 0, the record has neither
\* bpm nor bpm_calculated, as when it returned None.
C21_BpmCalculatedOnlyTrue ==
    pc = "returned" =>
        LET r == results[1] IN
        /\ "bpm_calculated" \in DOMAIN r => r.bpm_calculated = TRUE
        /\ HasBpmCalculated(r) =>
              /\ bpm_calls # <<>>
              /\ ~bpm_returned.none
              /\ bpm_returned.val # 0
              /\ "bpm" \in DOMAIN r
              /\ r.bpm = DecStr(bpm_returned.val)
              /\ "error" \notin DOMAIN r
        /\ (bpm_calls # <<>> /\ (bpm_returned.none \/ bpm_returned.val = 0)) =>
              /\ DOMAIN r \cap {"bpm", "bpm_calculated", "error"} = {}
              /\ r = Extract(IsMp3Name(tree[1].name), r.file_path, tree[1],
                             FALSE)

\* calculate_bpm has returned 0 for a parsed file without tempo tag: the
\* record has its structural fields and no bpm.
C21_Witness ==
    /\ pc = "returned"
    /\ flag
    /\ bpm_calls # <<>>
    /\ bpm_returned = Some(0)
    /\ StructuralKeys \subseteq DOMAIN results[1]
    /\ "bpm" \notin DOMAIN results[1]

====
